---- MODULE Spec2Model ----
(***************************************************************************)
(* The persistence layer of financial_analyzer (src/database.py) and the   *)
(* pipeline that drives it (src/main.py), as a state machine.              *)
(*                                                                         *)
(* A table is the sequence of its rows in ascending order of the surrogate *)
(* id column: SQLite gives every inserted row an id larger than all        *)
(* existing ones, so an insert appends, and INSERT OR REPLACE deletes the  *)
(* rows that conflict on the UNIQUE constraint and appends the new row.    *)
(* In a UNIQUE constraint SQLite treats NULLs as distinct from each other, *)
(* so a row with a NULL key column never conflicts.                        *)
(*                                                                         *)
(* SpecStore is the store under direct calls of init_db,                   *)
(* save_daily_metrics and save_signal_events; SpecRun is the store under   *)
(* invocations of the pipeline, one action per call that run() makes.      *)
(* The variable last is a history variable: a summary of the latest call.  *)
(* Time (added_at, generated_at) and the surrogate ids are not modelled.   *)
(***************************************************************************)
EXTENDS Integers, Sequences, FiniteSets, TLC

VARIABLES created, tickers, dm, se, last, run, export

vars == <<created, tickers, dm, se, last, run, export>>

-----------------------------------------------------------------------------
(* Bounds of the model *)

MaxBatch == 2

MaxRows == 2

-----------------------------------------------------------------------------
(* Values *)

TickerNames == {"A", "B"}

Days == {1, 2}

Values == {"p1", "p2"}

\* Python's None on the input side, SQL NULL on the stored side.
None == "None"

NULL == "NULL"

NullDate == [form |-> "null", day |-> 0]

NaT == [form |-> "nat", day |-> 0]

BadDate == [form |-> "bad", day |-> 0]

NoDate == [form |-> "none", day |-> 0]

\* The column lists of the two INSERT statements.
DMCols == {"ticker", "date", "open", "high", "low", "close", "volume",
           "sma50", "sma200", "price_to_book", "bvps", "enterprise_value"}

SignalTypes == {"golden_cross", "death_cross"}

-----------------------------------------------------------------------------
(* Conversions *)

\* pd.to_datetime(x).dt.date on one cell: every well-formed date, date-time or
\* ISO string becomes the calendar date of its day, a missing value becomes NaT.
\* (A malformed string makes the whole conversion raise: see DateConversionRaises.)
ToDate(v) ==
    IF v.form = "none" THEN NaT ELSE [form |-> "date", day |-> v.day]

DateConversionRaises(df) ==
    /\ "date" \in df.cols
    /\ \E i \in 1..Len(df.rows) : df.rows[i].date.form = "bad"

\* What the sqlite3 driver can bind as a statement parameter: None, str and
\* the exact types datetime.date and datetime.datetime (through the default
\* adapters).  NaT and pandas Timestamp are subclasses without an adapter.
Bindable(v) == v.form \notin {"nat", "timestamp"}

\* The text stored for a bound date parameter: the date adapter writes
\* YYYY-MM-DD, the datetime adapter YYYY-MM-DD HH:MM:SS, a string is stored
\* as it is, None is NULL.
BindDate(v) ==
    CASE v.form = "date"     -> [form |-> "iso", day |-> v.day]
      [] v.form = "isostr"   -> [form |-> "iso", day |-> v.day]
      [] v.form = "datetime" -> [form |-> "isodt", day |-> v.day]
      [] v.form = "bad"      -> [form |-> "raw", day |-> 0]
      [] OTHER               -> NullDate

BindText(v) == IF v = None THEN NULL ELSE v

\* str(meta)
Str(m) == IF m = None THEN "None" ELSE "{}"

-----------------------------------------------------------------------------
(* Tables *)

ConflictDM(r, s) ==
    /\ r.ticker # NULL /\ r.date # NullDate
    /\ r.ticker = s.ticker /\ r.date = s.date

ConflictSE(r, s) ==
    /\ r.ticker # NULL /\ r.date # NullDate /\ r.signal_type # NULL
    /\ r.ticker = s.ticker /\ r.date = s.date /\ r.signal_type = s.signal_type

\* A plain INSERT that the constraint does not stop.
InsertDM(table, row) == Append(table, row)

\* An upsert that updates only the columns the statement names (ON CONFLICT
\* DO UPDATE): a column the new record lacks keeps the old row's value.
InsertOrMergeDM(table, row) ==
    LET Keep(s) == ~ConflictDM(row, s)
        Hit(s) == ConflictDM(row, s)
        old == SelectSeq(table, Hit)
        merged == IF old = <<>> THEN row
                  ELSE [c \in DOMAIN row |->
                          IF c # "date" /\ row[c] = NULL THEN old[1][c] ELSE row[c]]
    IN  Append(SelectSeq(table, Keep), merged)

InsertOrReplaceDM(table, row) ==
    LET Keep(s) == ~ConflictDM(row, s)
    IN  Append(SelectSeq(table, Keep), row)

InsertOrReplaceSE(table, row) ==
    LET Keep(s) == ~ConflictSE(row, s)
    IN  Append(SelectSeq(table, Keep), row)

\* A failed transaction whose executed statements stay.
KeepWork(committed, working) == working

\* A transaction that ends by an exception leaves the committed table.
Rollback(committed, working) == committed

-----------------------------------------------------------------------------
(* save_daily_metrics *)

\* df2["date"] = pd.to_datetime(df2["date"]).dt.date, when there is a date column
NormalizeDates(df) ==
    IF "date" \in df.cols
    THEN [df EXCEPT !.rows =
            [i \in 1..Len(df.rows) |->
                [df.rows[i] EXCEPT !.date = ToDate(df.rows[i].date)]]]
    ELSE df

\* No column selection at all.
SelectAllCols(df) == df

\* cols = [c for c in cols if c in df2.columns]; df2 = df2[cols]
SelectCols(df) ==
    [cols |-> df.cols \cap DMCols,
     rows |-> [i \in 1..Len(df.rows) |->
                 [c \in df.cols \cap DMCols |-> df.rows[i][c]]]]

\* The row an INSERT of record r writes: the named columns bound from r, every
\* other column NULL.
RowDM(r) ==
    [c \in DMCols |->
        IF c \in DOMAIN r
        THEN IF c = "date" THEN BindDate(r[c]) ELSE BindText(r[c])
        ELSE IF c = "date" THEN NullDate ELSE NULL]

\* An execute raises when the table does not exist, when the statement names
\* a column the table does not have, or when a parameter cannot be bound.
ExecuteFailsDM(r, exists) ==
    \/ ~exists
    \/ ~(DOMAIN r \subseteq DMCols)
    \/ "date" \in DOMAIN r /\ ~Bindable(r.date)

\* The loop of line 99: records i..n executed in order on the working table;
\* failAt is the record at which the storage engine fails (0: nowhere).
RECURSIVE ExecMetrics(_, _, _, _, _)
ExecMetrics(table, recs, i, failAt, exists) ==
    IF i > Len(recs) THEN [table |-> table, ok |-> TRUE]
    ELSE IF failAt = i \/ ExecuteFailsDM(recs[i], exists)
         THEN [table |-> table, ok |-> FALSE]
         ELSE ExecMetrics(InsertOrReplaceDM(table, RowDM(recs[i])),
                          recs, i + 1, failAt, exists)

\* with conn.begin(): the working table w is committed when the block ends
\* normally and rolled back when it ends by an exception.
Transaction(committed, w) ==
    IF w.ok THEN w
    ELSE [table |-> Rollback(committed, w.table), ok |-> FALSE]

\* Lines 93 to 105: nothing to do for no records, else one transaction.
SaveRecords(exists, table, records, failAt) ==
    IF records = <<>> THEN [table |-> table, ok |-> TRUE]
    ELSE Transaction(table, ExecMetrics(table, records, 1, failAt, exists))

SaveDailyMetrics(exists, table, df, failAt) ==
    IF DateConversionRaises(df) THEN [table |-> table, ok |-> FALSE]
    ELSE SaveRecords(exists, table, SelectCols(NormalizeDates(df)).rows, failAt)

-----------------------------------------------------------------------------
(* save_signal_events *)

\* The row of line 123: ev.get gives None for a missing key, the date goes to
\* the driver as it came, meta goes through str().
RowSE(ticker, ev) ==
    [ticker      |-> BindText(ticker),
     date        |-> BindDate(ev.date),
     signal_type |-> BindText(ev.signal_type),
     meta        |-> Str(ev.meta)]

ExecuteFailsSE(ev, exists) ==
    \/ ~exists
    \/ ~Bindable(ev.date)

RECURSIVE ExecEvents(_, _, _, _, _, _)
ExecEvents(table, ticker, events, i, failAt, exists) ==
    IF i > Len(events) THEN [table |-> table, ok |-> TRUE]
    ELSE IF failAt = i \/ ExecuteFailsSE(events[i], exists)
         THEN [table |-> table, ok |-> FALSE]
         ELSE ExecEvents(InsertOrReplaceSE(table, RowSE(ticker, events[i])),
                         ticker, events, i + 1, failAt, exists)

SaveSignalEvents(exists, table, ticker, events, failAt) ==
    Transaction(table, ExecEvents(table, ticker, events, 1, failAt, exists))

-----------------------------------------------------------------------------
(* Inputs *)

Day1 == [form |-> "datetime", day |-> 1]

Day2 == [form |-> "datetime", day |-> 2]

RowsOf(S) == UNION {[1..n -> S] : n \in 0..MaxBatch}

FramesOf(cols, S) == {[cols |-> cols, rows |-> rs] : rs \in RowsOf(S)}

RowA == [ticker |-> "A", date |-> Day1, close |-> "p1"]

\* Records that carry a ticker and a well-formed date: two payloads for one
\* key, and the same date for another ticker.
ValidRows ==
    {RowA, [RowA EXCEPT !.close = "p2"], [RowA EXCEPT !.ticker = "B"]}

\* Frames with a column that the table does not have.
ExtraFrames ==
    FramesOf({"ticker", "date", "close", "extra"},
             [ticker : {"A"}, date : {Day2}, close : {"p1"}, extra : {"x"}])

ValidFrames ==
    FramesOf({"ticker", "date", "close"}, ValidRows)
    \cup FramesOf({"ticker", "date", "close", "sma50"},
             [ticker : {"A"}, date : {[form |-> "isostr", day |-> 1]},
              close : {"p1"}, sma50 : {"p2"}])
    \cup ExtraFrames

\* Frames with a null ticker or a null date among valid records, and with a
\* malformed date string among valid records.
InvalidFrames ==
    FramesOf({"ticker", "date", "close"},
             {RowA, [RowA EXCEPT !.ticker = None], [RowA EXCEPT !.date = NoDate]})
    \cup FramesOf({"ticker", "date", "close"},
             {RowA, [RowA EXCEPT !.date = BadDate]})

\* Frames without a ticker column, without a date column.
KeylessFrames ==
    FramesOf({"date", "close"}, [date : {Day1}, close : {"p1"}])
    \cup FramesOf({"ticker", "close"}, [ticker : {"A"}, close : {"p1"}])

Frames == ValidFrames \cup InvalidFrames \cup KeylessFrames

Dict == "dict"

Golden(form, day) ==
    [date |-> [form |-> form, day |-> day], signal_type |-> "golden_cross",
     meta |-> Dict]

\* Events of one day, of both types, the date a calendar date or a date-time.
ValidEvents ==
    {Golden("date", 1), Golden("datetime", 1),
     [Golden("date", 1) EXCEPT !.signal_type = "death_cross"]}

\* The batches saved for ticker t.  For "A": the valid batches; the batches of
\* an event dated by an ISO string, one without date and one dated by a pandas
\* Timestamp; the batches of an event dated by a malformed string and one with
\* neither signal_type nor meta.  For the others: one event of another day.
ValidBatches(t) ==
    IF t = "A"
    THEN RowsOf(ValidEvents) \cup RowsOf({Golden("isostr", 1)})
    ELSE RowsOf({Golden("date", 2)})

Batches(t) ==
    IF t = "A"
    THEN ValidBatches(t)
         \cup RowsOf({Golden("isostr", 1),
                      [Golden("date", 1) EXCEPT !.date = NoDate],
                      Golden("timestamp", 1)})
         \cup RowsOf({[Golden("date", 1) EXCEPT !.date = BadDate],
                      [Golden("date", 1) EXCEPT !.signal_type = None,
                                                !.meta = None]})
    ELSE ValidBatches(t)

-----------------------------------------------------------------------------
(* State machine *)

RowSet(table) == {table[i] : i \in 1..Len(table)}

\* What the model remembers of the most recent call: the operation, whether it
\* returned normally, and whether a row stored before it is stored no more.
Call(op, ok, before, after) ==
    [op |-> op, ok |-> ok,
     replaced |-> \E r \in RowSet(before) : r \notin RowSet(after)]

NoCall == [op |-> "none", ok |-> TRUE, replaced |-> FALSE]

EmptyFrame == [cols |-> {}, rows |-> <<>>]

Idle == [pc |-> "idle", at |-> "none", ticker |-> None,
         df |-> EmptyFrame, events |-> <<>>]

\* The output file: of the payload, the ticker and the signals.
NoFile == [state |-> "absent", ticker |-> None, signals |-> <<>>]

Init ==
    /\ created = FALSE
    /\ tickers = <<>>
    /\ dm = <<>>
    /\ se = <<>>
    /\ last = NoCall
    /\ run = Idle
    /\ export = NoFile

\* A variant of init_db that drops the tables before creating them.
InitDbRecreate ==
    /\ created' = TRUE
    /\ dm' = <<>>
    /\ se' = <<>>
    /\ last' = [NoCall EXCEPT !.op = "init_db"]
    /\ UNCHANGED <<tickers, run, export>>

\* init_db: CREATE TABLE IF NOT EXISTS for the three tables.
InitDb ==
    /\ created' = TRUE
    /\ last' = [NoCall EXCEPT !.op = "init_db"]
    /\ UNCHANGED <<tickers, dm, se, run, export>>

SaveDailyMetricsCall ==
    \E df \in Frames : \E failAt \in 0..Len(df.rows) :
        \E res \in {SaveDailyMetrics(created, dm, df, failAt)} :
            /\ Len(res.table) + Len(se) <= MaxRows
            /\ dm' = res.table
            /\ last' = Call("save_daily_metrics", res.ok, dm, res.table)
            /\ UNCHANGED <<created, tickers, se, run, export>>

SaveSignalEventsCall ==
    \E ticker \in TickerNames : \E events \in Batches(ticker) :
    \E failAt \in 0..Len(events) :
        \E res \in {SaveSignalEvents(created, se, ticker, events, failAt)} :
            /\ Len(dm) + Len(res.table) <= MaxRows
            /\ se' = res.table
            /\ last' = Call("save_signal_events", res.ok, se, res.table)
            /\ UNCHANGED <<created, tickers, dm, run, export>>

-----------------------------------------------------------------------------
(* The pipeline: run() of main.py, one action per call it makes *)

RECURSIVE Asc(_)
Asc(S) ==
    IF S = {} THEN <<>>
    ELSE LET m == CHOOSE x \in S : \A y \in S : x <= y
         IN  <<m>> \o Asc(S \ {m})

\* What process_data may hand over for ticker t: a frame whose date column was
\* made date-times by line 58, with or without a ticker column.
RunFrames(t) ==
    FramesOf({"date", "close"}, [date : {Day1, Day2}, close : {"p1"}])
    \cup FramesOf({"ticker", "date", "close"},
                  [ticker : {t}, date : {Day1, Day2}, close : {"p1"}])

DaysIn(df) == {df.rows[i].date.day : i \in 1..Len(df.rows)}

\* Lines 65 to 69: the golden-cross events, then the death-cross events.
EventsOf(golden, death, form) ==
    LET g == Asc(golden)
        d == Asc(death)
    IN  [i \in 1..Len(g) |->
            [date |-> [form |-> form, day |-> g[i]],
             signal_type |-> "golden_cross", meta |-> Dict]]
        \o [i \in 1..Len(d) |->
            [date |-> [form |-> form, day |-> d[i]],
             signal_type |-> "death_cross", meta |-> Dict]]

\* The forms in which the detectors may return a date.
DetectedForms == {"isostr", "date", "timestamp"}

Failed(at) == [run EXCEPT !.pc = "failed", !.at = at]

\* Lines 45 to 52: a new invocation, with init_db unless --no-initdb.
RunStart ==
    \E t \in TickerNames : \E initdb \in BOOLEAN :
        /\ run.pc \in {"idle", "done", "failed"}
        /\ run' = [Idle EXCEPT !.pc = "started", !.ticker = t]
        /\ created' = (created \/ initdb)
        /\ UNCHANGED <<tickers, dm, se, last, export>>

\* Lines 54 to 69: fetch, process, detect and build the events; any of them
\* may raise.
RunFetch ==
    /\ run.pc = "started"
    /\ \/ run' = Failed("fetch")
       \/ \E df \in RunFrames(run.ticker) : \E form \in DetectedForms :
          \E golden \in SUBSET DaysIn(df) :
          \E death \in SUBSET (DaysIn(df) \ golden) :
              run' = [run EXCEPT !.pc = "fetched", !.df = df,
                                 !.events = EventsOf(golden, death, form)]
    /\ UNCHANGED <<created, tickers, dm, se, last, export>>

\* Line 74 moved before line 73.
RunSaveEventsFirst ==
    /\ run.pc = "fetched"
    /\ \E failAt \in 0..Len(run.events) :
        \E res \in {SaveSignalEvents(created, se, run.ticker, run.events, failAt)} :
            /\ Len(dm) + Len(res.table) <= MaxRows
            /\ se' = res.table
            /\ run' = IF res.ok THEN [run EXCEPT !.pc = "events_saved"]
                      ELSE Failed("save_signal_events")
    /\ UNCHANGED <<created, tickers, dm, last, export>>

\* Line 73
RunSaveMetrics ==
    /\ run.pc = "fetched"
    /\ \E failAt \in 0..Len(run.df.rows) :
        \E res \in {SaveDailyMetrics(created, dm, run.df, failAt)} :
            /\ Len(res.table) + Len(se) <= MaxRows
            /\ dm' = res.table
            /\ run' = IF res.ok THEN [run EXCEPT !.pc = "metrics_saved"]
                      ELSE Failed("save_daily_metrics")
    /\ UNCHANGED <<created, tickers, se, last, export>>

\* Line 74
RunSaveEvents ==
    /\ run.pc = "metrics_saved"
    /\ \E failAt \in 0..Len(run.events) :
        \E res \in {SaveSignalEvents(created, se, run.ticker, run.events, failAt)} :
            /\ Len(dm) + Len(res.table) <= MaxRows
            /\ se' = res.table
            /\ run' = IF res.ok THEN [run EXCEPT !.pc = "events_saved"]
                      ELSE Failed("save_signal_events")
    /\ UNCHANGED <<created, tickers, dm, last, export>>

\* json.dump writes strings and numbers; a date object in the events makes it
\* raise after the file was opened for writing and partly written.
Serializable(events) ==
    \A i \in 1..Len(events) : events[i].date.form = "isostr"

\* Lines 77 to 87
RunExport ==
    /\ run.pc = "events_saved"
    /\ \/ /\ run' = Failed("export")
          /\ UNCHANGED export
       \/ /\ ~Serializable(run.events)
          /\ run' = Failed("export")
          /\ export' = [state |-> "partial", ticker |-> run.ticker,
                        signals |-> <<>>]
       \/ /\ Serializable(run.events)
          /\ run' = [run EXCEPT !.pc = "done"]
          /\ export' = [state |-> "written", ticker |-> run.ticker,
                        signals |-> run.events]
    /\ UNCHANGED <<created, tickers, dm, se, last>>

NextRun == RunStart \/ RunFetch \/ RunSaveMetrics \/ RunSaveEvents \/ RunExport

SpecRun == Init /\ [][NextRun]_vars

NextStore == InitDb \/ SaveDailyMetricsCall \/ SaveSignalEventsCall

SpecStore == Init /\ [][NextStore]_vars

-----------------------------------------------------------------------------
(* Properties *)

Mult(table, r) == Cardinality({i \in 1..Len(table) : table[i] = r})

\* The observable state of a table: its rows with their multiplicities,
\* without the surrogate id.
SameRows(t1, t2) ==
    /\ RowSet(t1) = RowSet(t2)
    /\ \A r \in RowSet(t1) : Mult(t1, r) = Mult(t2, r)

RecordsOf(df) == SelectCols(NormalizeDates(df)).rows

\* C1: a valid batch (its records carry their key fields, well-formed) that
\* was saved without error can be saved again at once, without error, and the
\* store then holds the same rows, each as often as before: for
\* save_daily_metrics and for save_signal_events, from every reachable store.
IdempotentUpserts ==
    /\ \A df \in ValidFrames :
         \A once \in {SaveDailyMetrics(created, dm, df, 0)} :
         \A twice \in {SaveDailyMetrics(created, once.table, df, 0)} :
             once.ok => twice.ok /\ SameRows(twice.table, once.table)
    /\ \A t \in TickerNames : \A events \in ValidBatches(t) :
         \A once \in {SaveSignalEvents(created, se, t, events, 0)} :
         \A twice \in {SaveSignalEvents(created, once.table, t, events, 0)} :
             once.ok => twice.ok /\ SameRows(twice.table, once.table)

\* A store where each table holds one row that a successful call has written
\* and that saving the same one-record batch again reproduces.
IdempotentWitness ==
    /\ last.op = "save_signal_events" /\ last.ok
    /\ Len(dm) = 1 /\ Len(se) = 1
    /\ \E df \in ValidFrames :
         /\ Len(df.rows) = 1
         /\ SaveDailyMetrics(created, dm, df, 0) = [table |-> dm, ok |-> TRUE]
    /\ \E t \in TickerNames : \E events \in ValidBatches(t) :
         /\ Len(events) = 1
         /\ SaveSignalEvents(created, se, t, events, 0) = [table |-> se, ok |-> TRUE]

\* The row that holds record i of df in full: the record's ticker, the ISO
\* text of its day, its value in every allowlisted column it has and NULL in
\* every other column.
FullRow(df, i) ==
    [c \in DMCols |->
        IF c = "date" THEN [form |-> "iso", day |-> df.rows[i].date.day]
        ELSE IF c \in df.cols THEN df.rows[i][c] ELSE NULL]

\* A record with its two key fields, the date well-formed.
WellKeyed(df, i) ==
    /\ {"ticker", "date"} \subseteq df.cols
    /\ df.rows[i].ticker # None
    /\ df.rows[i].date.form \in {"date", "datetime", "isostr"}

SameKeyDM(r, s) == r.ticker = s.ticker /\ r.date = s.date

\* C2: when a row P1 is stored for (t, d) and a one-record batch for (t, d)
\* with a different payload P2 is saved, the call is not rejected and the
\* table then holds exactly one row for (t, d), which is P2 in full (a column
\* that P2 lacks is NULL, whatever P1 held in it).
ReplaceSemantics ==
    \A i \in 1..Len(dm) : \A df \in Frames :
        (/\ Len(df.rows) = 1
         /\ WellKeyed(df, 1)
         /\ SameKeyDM(FullRow(df, 1), dm[i])
         /\ FullRow(df, 1) # dm[i])
        => \A res \in {SaveDailyMetrics(created, dm, df, 0)} :
               /\ res.ok
               /\ \E j \in 1..Len(res.table) :
                    /\ res.table[j] = FullRow(df, 1)
                    /\ \A k \in 1..Len(res.table) :
                         SameKeyDM(res.table[k], dm[i]) => k = j

\* A save has just replaced the only stored row by a different one, and a
\* one-record batch with the key of that row and another payload exists.
ReplaceWitness ==
    /\ last.op = "save_daily_metrics" /\ last.ok /\ last.replaced
    /\ Len(dm) = 1
    /\ \E df \in Frames :
         /\ Len(df.rows) = 1
         /\ WellKeyed(df, 1)
         /\ SameKeyDM(FullRow(df, 1), dm[1])
         /\ FullRow(df, 1) # dm[1]

RowsDM(df) == [i \in 1..Len(df.rows) |-> RowDM(RecordsOf(df)[i])]

RowsSE(t, events) == [i \in 1..Len(events) |-> RowSE(t, events[i])]

\* Every row of the batch that no later row of the batch replaces is stored.
AllVisible(rows, table, Conflict(_, _)) ==
    \A i \in 1..Len(rows) :
        (\A j \in (i + 1)..Len(rows) : ~Conflict(rows[j], rows[i]))
        => rows[i] \in RowSet(table)

\* C3: from every reachable store, a call of save_daily_metrics or
\* save_signal_events that fails (a record that cannot be written, or the
\* storage engine failing at record k) leaves the table exactly as it was, and
\* a call that does not fail leaves every record of its batch visible.
BatchAtomicity ==
    /\ \A df \in Frames : \A k \in 0..Len(df.rows) :
         \A res \in {SaveDailyMetrics(created, dm, df, k)} :
             IF res.ok
             THEN DateConversionRaises(df) = FALSE
                  /\ AllVisible(RowsDM(df), res.table, ConflictDM)
             ELSE res.table = dm
    /\ \A t \in TickerNames : \A events \in Batches(t) : \A k \in 0..Len(events) :
         \A res \in {SaveSignalEvents(created, se, t, events, k)} :
             IF res.ok
             THEN AllVisible(RowsSE(t, events), res.table, ConflictSE)
             ELSE res.table = se

\* A save has just failed on a store that holds a row, and a two-record batch
\* exists whose first record is written before its second fails.
AtomicityWitness ==
    /\ last.op = "save_daily_metrics" /\ ~last.ok
    /\ Len(dm) = 1
    /\ \E df \in Frames :
         /\ Len(df.rows) = 2
         /\ ~DateConversionRaises(df)
         /\ ~ExecMetrics(dm, RecordsOf(df), 1, 2, created).ok
         /\ ExecMetrics(dm, RecordsOf(df), 1, 2, created).table # dm

\* C4: a record with a malformed date or without a key field is never
\* stored: no stored row has a NULL key field or a date that is not the text of
\* a date.
InvalidKeysRejected ==
    /\ \A i \in 1..Len(dm) :
         dm[i].ticker # NULL /\ dm[i].date.form = "iso"
    /\ \A i \in 1..Len(se) :
         /\ se[i].ticker # NULL /\ se[i].signal_type # NULL
         /\ se[i].date.form \in {"iso", "isodt"}

\* C5: daily_metrics holds at most one row per (ticker, date).
MetricUniqueness ==
    \A i, j \in 1..Len(dm) : SameKeyDM(dm[i], dm[j]) => i = j

\* The calendar day of a stored date text.
StoredDay(d) == IF d.form \in {"iso", "isodt"} THEN d.day ELSE 0

\* C6: signal_events holds at most one row per ticker, calendar day and
\* signal type.
SignalEventUniqueness ==
    \A i, j \in 1..Len(se) :
        (/\ se[i].ticker \in TickerNames
         /\ se[i].ticker = se[j].ticker
         /\ se[i].signal_type \in SignalTypes
         /\ se[i].signal_type = se[j].signal_type
         /\ StoredDay(se[i].date) \in Days
         /\ StoredDay(se[i].date) = StoredDay(se[j].date))
        => i = j

\* The frame without its columns outside the table.
WithoutExtra(df) ==
    [cols |-> df.cols \ {"extra"},
     rows |-> [i \in 1..Len(df.rows) |->
                 [c \in df.cols \ {"extra"} |-> df.rows[i][c]]]]

\* C7: every stored row has exactly the columns of the allowlist, and from
\* every reachable store a frame with an extra column is saved with the
\* outcome and the resulting table of the same frame without that column.
ColumnAllowlist ==
    /\ \A i \in 1..Len(dm) : DOMAIN dm[i] = DMCols
    /\ \A df \in ExtraFrames : \A k \in 0..Len(df.rows) :
         SaveDailyMetrics(created, dm, df, k)
            = SaveDailyMetrics(created, dm, WithoutExtra(df), k)

\* A save has just succeeded, and saving a two-record frame with an extra
\* column now would succeed and add a row.
AllowlistWitness ==
    /\ last.op = "save_daily_metrics" /\ last.ok
    /\ Len(dm) = 1
    /\ \E df \in ExtraFrames :
         /\ Len(df.rows) = 2
         /\ SaveDailyMetrics(created, dm, df, 0).ok
         /\ SaveDailyMetrics(created, dm, df, 0).table # dm

\* C8: after a successful run for ticker t the tickers table holds exactly
\* one row for t.
TickerRegistered ==
    run.pc = "done"
    => Cardinality({i \in 1..Len(tickers) : tickers[i].ticker = run.ticker}) = 1

KeysDM(table) == {<<table[i].ticker, table[i].date>> : i \in 1..Len(table)}

KeysSE(table) ==
    {<<table[i].ticker, table[i].date, table[i].signal_type>> : i \in 1..Len(table)}

\* C9: no step of init_db, save_daily_metrics or save_signal_events, failed
\* or not, removes a natural key from a table or makes a table shorter.
NoDelete ==
    [][/\ KeysDM(dm) \subseteq KeysDM(dm')
       /\ KeysSE(se) \subseteq KeysSE(se')
       /\ Len(dm') >= Len(dm)
       /\ Len(se') >= Len(se)
       /\ created => created']_vars

\* A save of metrics has just replaced the stored metric row by a different
\* one for the same key, on a store that also holds an event row.
NoDeleteWitness ==
    /\ last.op = "save_daily_metrics" /\ last.replaced
    /\ Len(dm) = 1 /\ Len(se) = 1

MetricsCommitted == AllVisible(RowsDM(run.df), dm, ConflictDM)

\* C10: in a run, signal_events changes only in the step after the metrics
\* were committed and the export file only in the step after the events were
\* committed; from the metrics on, the run's metrics stay visible; and a
\* failure of save_signal_events changes neither table nor the export file.
PipelineOrdering ==
    /\ [](run.pc \in {"metrics_saved", "events_saved", "done"} => MetricsCommitted)
    /\ [](run.pc = "failed" /\ run.at \in {"save_signal_events", "export"}
            => MetricsCommitted)
    /\ [][/\ se' # se => run.pc = "metrics_saved" /\ run'.pc = "events_saved"
          /\ export' # export => run.pc = "events_saved"
          /\ dm' # dm => run.pc = "fetched" /\ run'.pc = "metrics_saved"
          /\ run'.pc = "failed" /\ run'.at = "save_signal_events"
                => se' = se /\ dm' = dm /\ export' = export]_vars

\* A run whose save_signal_events failed on a non-empty batch: its metric row
\* is stored, no event is, and no export file exists.
PipelineWitness ==
    /\ run.pc = "failed" /\ run.at = "save_signal_events"
    /\ Len(run.events) >= 1 /\ Len(run.df.rows) >= 1
    /\ Len(dm) >= 1 /\ se = <<>> /\ export = NoFile

====
